---------------------------- MODULE Spec2Model ----------------------------
(***************************************************************************)
(* A model of the Singine persistence engine (uniWork/persistence/rust):   *)
(*   id_gen.rs        generate, resolve_urn                                *)
(*   shortest_path.rs quicksort_edges, build_adjacency, dijkstra           *)
(*                                                                         *)
(* Strings are sequences of characters; a character is a one-symbol TLA+   *)
(* string ("a", ":", ...), and "U+00E9" stands for the single character    *)
(* e-acute.  Edge weights and costs are integers counted in units of the   *)
(* staleness tolerance 1e-9 of dijkstra, so that tolerance is Eps == 1.    *)
(***************************************************************************)
EXTENDS Integers, Sequences, FiniteSets, TLC

VARIABLES
    \* ---- the durable store and the callers of generate (id_gen.rs) ----
    tableExists,    \* whether table inode_counter has been created
    inodeCounter,   \* the rows of inode_counter: namespace -> next_inode
    pc,             \* per connection: the statement of generate it is at
    local,          \* per connection: generate's arguments and locals
    issued,         \* history: the GenId records returned so far, in order
    \* ---- id formatting and resolve_urn on drawn inputs ----
    uPc, uIn, uOut,
    \* ---- quicksort_edges on a drawn edge list ----
    qPc, qEdges, qInput, qStack,
    \* ---- build_adjacency and dijkstra on a drawn graph ----
    dPc, edges, adj, src, dst, dist, heap, result,
    \* ---- compute_and_persist on connection "c1" (shortest_path.rs) ----
    edgeTable,      \* the rows of similarity_edges
    pathResults,    \* the rows of path_results, in insertion order
    cPc,            \* the step compute_and_persist is at
    cArgs,          \* its arguments edge_type and run_id (src, dst above)
    cRet            \* what it returned

mintVars == <<tableExists, inodeCounter, pc, local, issued>>
urnVars  == <<uPc, uIn, uOut>>
sortVars == <<qPc, qEdges, qInput, qStack>>
pathVars == <<dPc, edges, adj, src, dst, dist, heap, result>>
persistVars == <<edgeTable, pathResults, cPc, cArgs, cRet>>
vars     == <<mintVars, urnVars, sortVars, pathVars, persistVars>>

-----------------------------------------------------------------------------
(* Bounds of the model *)

\* generate calls begun in one behaviour
MaxCalls == 3
\* the largest edge weight drawn
MaxW == 2
\* longest edge list drawn for quicksort_edges
MaxSortLen == 4
\* most edges in a graph drawn for build_adjacency and dijkstra
MaxEdges == 3

-----------------------------------------------------------------------------
(* Characters and strings *)

Colon      == ":"
Dash       == "-"
Underscore == "_"

\* "urn", "singine", "path", "entity" as character sequences
StrUrn     == <<"u", "r", "n">>
StrSingine == <<"s", "i", "n", "g", "i", "n", "e">>
StrPath    == <<"p", "a", "t", "h">>
StrEntity  == <<"e", "n", "t", "i", "t", "y">>

\* Uuid::new_v4().to_string(): 36 characters, 8-4-4-4-12 lowercase hex.
UuidStrings ==
    { <<"3","f","a","8","5","f","6","4","-","5","7","1","7","-","4","5","6","2",
        "-","b","3","f","c","-","2","c","9","6","3","f","6","6","a","f","a","6">>,
      <<"0","0","c","0","f","f","e","e","-","1","2","3","4","-","4","a","b","c",
        "-","8","d","e","f","-","0","1","2","3","4","5","6","7","8","9","a","b">> }

\* c.is_alphanumeric(): Unicode Alphabetic or Numeric, not only ASCII.
AsciiAlnum   == {"a", "b", "c", "d", "e", "f", "g", "h", "i", "n", "p", "r", "s", "t",
                 "u", "y", "Z", "0", "1", "2", "3", "4", "5", "6", "7", "8", "9"}
UnicodeAlnum == {"U+00E9"}
IsAlphanumeric(c) == c \in AsciiAlnum \cup UnicodeAlnum

\* the [..8] of generate's short_uuid
ShortLen == 8
\* the .take(16) of generate's hint sanitisation
HintTake == 16

\* h.chars().map(|c| if c.is_alphanumeric() || c == '-' { c } else { '_' })
SafeChar(c) == IF IsAlphanumeric(c) \/ c = Dash THEN c ELSE Underscore

\* .map(..).take(16).collect(): the iterator yields mapped characters until
\* the hint ends or 16 have been taken.
RECURSIVE TakeMapped(_, _)
TakeMapped(h, n) ==
    IF h = <<>> \/ n = 0 THEN <<>>
    ELSE <<SafeChar(Head(h))>> \o TakeMapped(Tail(h), n - 1)

\* mutant: the .take(16) is missing
SanitizeUncut(h) == TakeMapped(h, Len(h))

Sanitize(h) == TakeMapped(h, HintTake)

ShortUuid(uuid) == SubSeq(uuid, 1, ShortLen)

\* hint is None (Option) or Some(string)
None == [some |-> FALSE]
Some(v) == [some |-> TRUE, val |-> v]

\* format!("{}-{}-{}", namespace, short_uuid, safe) / format!("{}-{}", ..)
GenIdOf(namespace, uuid, hint) ==
    IF hint.some /\ hint.val # <<>>
    THEN namespace \o <<Dash>> \o ShortUuid(uuid) \o <<Dash>> \o Sanitize(hint.val)
    ELSE namespace \o <<Dash>> \o ShortUuid(uuid)

\* format!("urn:singine:{}:{}", namespace, gen_id)
UrnOf(namespace, gen_id) ==
    StrUrn \o <<Colon>> \o StrSingine \o <<Colon>> \o namespace \o <<Colon>> \o gen_id

\* urn.splitn(4, ':'): at most n parts, cut at the first n-1 separators.
RECURSIVE SplitN(_, _, _)
SplitN(s, n, sep) ==
    LET hits == {i \in 1..Len(s) : s[i] = sep}
    IN  IF n <= 1 \/ hits = {} THEN <<s>>
        ELSE LET k == CHOOSE i \in hits : \A j \in hits : i <= j
             IN  <<SubSeq(s, 1, k - 1)>> \o SplitN(SubSeq(s, k + 1, Len(s)), n - 1, sep)

UrnParts == 4

\* mutant: the system tag parts[1] == "singine" is not checked
resolve_urn_AnySystem(urn) ==
    LET parts == SplitN(urn, UrnParts, Colon)
    IN  IF Len(parts) = UrnParts /\ parts[1] = StrUrn
        THEN Some(parts[4])
        ELSE None

resolve_urn(urn) ==
    LET parts == SplitN(urn, UrnParts, Colon)
    IN  IF Len(parts) = UrnParts /\ parts[1] = StrUrn /\ parts[2] = StrSingine
        THEN Some(parts[4])
        ELSE None

-----------------------------------------------------------------------------
(* generate: its statements against the store, one connection per caller *)

Conns      == {"c1", "c2"}
Namespaces == {StrPath, StrEntity}
MintHints  == {None, Some(<<"a", " ">>)}

MaxOf(S) == IF S = {} THEN 0 ELSE CHOOSE m \in S : \A x \in S : x <= m

\* the largest inode returned so far for a namespace (0: none yet)
LastIssued(ns) ==
    MaxOf({issued[k].rec.inode : k \in {j \in 1..Len(issued) : issued[j].namespace = ns}})

NoLocal == [namespace |-> <<>>, hint |-> None, inode |-> 0, prior |-> 0]

\* a caller enters generate(conn, namespace, hint)
Begin(c, ns, h) ==
    /\ pc[c] = "idle"
    /\ Len(issued) + Cardinality({d \in Conns : pc[d] # "idle"}) < MaxCalls
    /\ local' = [local EXCEPT ![c] =
                    [namespace |-> ns, hint |-> h, inode |-> 0, prior |-> LastIssued(ns)]]
    /\ pc' = [pc EXCEPT ![c] = "create"]
    /\ UNCHANGED <<tableExists, inodeCounter, issued>>

\* CREATE TABLE IF NOT EXISTS inode_counter
CreateTable(c) ==
    /\ pc[c] = "create"
    /\ tableExists' = TRUE
    /\ pc' = [pc EXCEPT ![c] = "upsert"]
    /\ UNCHANGED <<inodeCounter, local, issued>>

\* mutant: the row is inserted with the column default 1 instead of 2
UpsertRowFromDefault(rows, ns) ==
    IF ns \in DOMAIN rows
    THEN [rows EXCEPT ![ns] = @ + 1]
    ELSE (ns :> 1) @@ rows

\* mutant: ON CONFLICT DO NOTHING, the existing row is not incremented
UpsertRowNoIncrement(rows, ns) ==
    IF ns \in DOMAIN rows
    THEN rows
    ELSE (ns :> 2) @@ rows

\* mutant: the UPDATE has no WHERE of its own, every row is incremented
UpsertRowEvery(rows, ns) ==
    LET bumped == [n \in DOMAIN rows |-> rows[n] + 1]
    IN  IF ns \in DOMAIN rows THEN bumped ELSE (ns :> 2) @@ bumped

\* INSERT .. VALUES (?1, 2) ON CONFLICT(namespace) DO UPDATE SET next_inode = next_inode + 1
UpsertRow(rows, ns) ==
    IF ns \in DOMAIN rows
    THEN [rows EXCEPT ![ns] = @ + 1]
    ELSE (ns :> 2) @@ rows

Upsert(c) ==
    /\ pc[c] = "upsert"
    /\ tableExists
    /\ inodeCounter' = UpsertRow(inodeCounter, local[c].namespace)
    /\ pc' = [pc EXCEPT ![c] = "select"]
    /\ UNCHANGED <<tableExists, local, issued>>

\* SELECT next_inode - 1 FROM inode_counter WHERE namespace = ?1
SelectInode(c) ==
    /\ pc[c] = "select"
    /\ local[c].namespace \in DOMAIN inodeCounter
    /\ local' = [local EXCEPT ![c].inode = inodeCounter[local[c].namespace] - 1]
    /\ pc' = [pc EXCEPT ![c] = "format"]
    /\ UNCHANGED <<tableExists, inodeCounter, issued>>

\* build gen_id and urn, return Ok(GenId { gen_id, urn, inode })
Return(c) ==
    /\ pc[c] = "format"
    /\ \E uuid \in UuidStrings :
         LET gen_id == GenIdOf(local[c].namespace, uuid, local[c].hint)
             rec == [gen_id |-> gen_id,
                     urn    |-> UrnOf(local[c].namespace, gen_id),
                     inode  |-> local[c].inode]
         IN  issued' = Append(issued, [conn |-> c, namespace |-> local[c].namespace,
                                       prior |-> local[c].prior, rec |-> rec])
    /\ pc' = [pc EXCEPT ![c] = "idle"]
    /\ local' = [local EXCEPT ![c] = NoLocal]
    /\ UNCHANGED <<tableExists, inodeCounter>>


\* the other parts of the model at rest
UrnIdle  == uPc = "off" /\ uIn = <<>> /\ uOut = <<>>
SortIdle == qPc = "off" /\ qEdges = <<>> /\ qInput = <<>> /\ qStack = <<>>
PathIdle ==
    /\ dPc = "off" /\ edges = <<>> /\ adj = <<>> /\ src = "" /\ dst = ""
    /\ dist = <<>> /\ heap = {} /\ result = None

PersistIdle ==
    /\ edgeTable = <<>> /\ pathResults = <<>>
    /\ cPc = "off" /\ cArgs = <<>> /\ cRet = <<>>

\* a fresh store: no table, no rows, nobody inside generate
InitMint ==
    /\ tableExists = FALSE
    /\ inodeCounter = <<>>
    /\ pc = [c \in Conns |-> "idle"]
    /\ local = [c \in Conns |-> NoLocal]
    /\ issued = <<>>
    /\ UrnIdle /\ SortIdle /\ PathIdle /\ PersistIdle

\* callers on separate connections, statements interleaved freely
BeginAny == \E c \in Conns, ns \in Namespaces, h \in MintHints : Begin(c, ns, h)
DoCreateTable == \E c \in Conns : CreateTable(c)
DoUpsert == \E c \in Conns : Upsert(c)
DoSelectInode == \E c \in Conns : SelectInode(c)
DoReturn == \E c \in Conns : Return(c)

MintFrame == UNCHANGED <<urnVars, sortVars, pathVars, persistVars>>

NextMint ==
    \/ BeginAny /\ MintFrame
    \/ DoCreateTable /\ MintFrame
    \/ DoUpsert /\ MintFrame
    \/ DoSelectInode /\ MintFrame
    \/ DoReturn /\ MintFrame

SpecMint == InitMint /\ [][NextMint]_vars

\* sequential calls: a call begins only when no other call is in progress
BeginSeq ==
    /\ \A d \in Conns : pc[d] = "idle"
    /\ BeginAny

NextSeq ==
    \/ BeginSeq /\ MintFrame
    \/ DoCreateTable /\ MintFrame
    \/ DoUpsert /\ MintFrame
    \/ DoSelectInode /\ MintFrame
    \/ DoReturn /\ MintFrame

SpecSeq == InitMint /\ [][NextSeq]_vars

-----------------------------------------------------------------------------
(* Claims about the inode counter *)

SameNs(i, j) == issued[i].namespace = issued[j].namespace

\* C1: no two generate calls on one namespace ever return the same inode,
\* whatever the interleaving of callers on separate connections.
C1_NoDuplicateInode ==
    \A i, j \in 1..Len(issued) :
        (i # j /\ SameNs(i, j)) => issued[i].rec.inode # issued[j].rec.inode

\* the earlier returns for the namespace of the k-th return
Earlier(k) == {j \in 1..(k - 1) : SameNs(j, k)}

\* C2: in sequential use on a fresh store the first call for a namespace
\* returns inode 1 and each later call for it returns the previous inode of
\* that namespace plus 1, whatever was called on other namespaces in between.
C2_SequentialInodes ==
    \A k \in 1..Len(issued) :
        IF Earlier(k) = {}
        THEN issued[k].rec.inode = 1
        ELSE issued[k].rec.inode = issued[MaxOf(Earlier(k))].rec.inode + 1

C2_Witness ==
    /\ Len(issued) = 3
    /\ SameNs(1, 3) /\ ~SameNs(1, 2)
    /\ issued[3].rec.inode = 2

\* C3: a call that begins after another call on the same namespace has
\* returned gets a strictly greater inode (prior is the greatest inode that
\* had been returned for the namespace when the call began).
C3_StrictlyIncreasing ==
    \A k \in 1..Len(issued) : issued[k].rec.inode > issued[k].prior

C3_Witness ==
    \E k \in 1..Len(issued) :
        /\ issued[k].prior > 0
        /\ \E j \in 1..(k - 1) : SameNs(j, k) /\ issued[j].conn # issued[k].conn
        /\ \E d \in Conns : pc[d] \in {"select", "format"}

-----------------------------------------------------------------------------
(* Identifier formatting and resolve_urn as pure functions of drawn inputs *)

\* longest hint drawn (beyond the 16 characters that generate keeps)
MaxHintLen == 18
\* colon-separated segments in a namespace drawn for generate
MaxNsSegs == 2
\* colon-separated segments in a string drawn for resolve_urn
MaxUrnSegs == 5

RECURSIVE JoinColon(_)
JoinColon(segs) ==
    IF Len(segs) = 0 THEN <<>>
    ELSE IF Len(segs) = 1 THEN segs[1]
    ELSE segs[1] \o <<Colon>> \o JoinColon(Tail(segs))

SeqsUpTo(S, lo, hi) == UNION {[1..n -> S] : n \in lo..hi}

\* every string is the colon-join of its colon-free segments
NsWords  == {<<>>, <<"a">>, StrPath}
UrnWords == {<<>>, <<"a">>, <<"u", "r">>, StrUrn, StrSingine}

ArgNamespaces == {JoinColon(segs) : segs \in SeqsUpTo(NsWords, 1, MaxNsSegs)}
ArgTexts      == {JoinColon(segs) : segs \in SeqsUpTo(UrnWords, 1, MaxUrnSegs)}

\* hints: the first n characters of a one- or two-character pattern repeated
HintChars == {"a", "Z", "7", "-", "_", " ", ":", "U+00E9"}
Patterns  == SeqsUpTo(HintChars, 1, 2)
Cycle(w, n) == [i \in 1..n |-> w[((i - 1) % Len(w)) + 1]]
ArgHints  == {None} \cup {Some(Cycle(w, n)) : w \in Patterns, n \in 0..MaxHintLen}

InitUrn ==
    /\ \/ /\ uPc = "generate"
          /\ uIn \in [namespace : ArgNamespaces, uuid : UuidStrings, hint : ArgHints]
       \/ /\ uPc = "resolve"
          /\ uIn \in [urn : ArgTexts]
    /\ uOut = <<>>
    /\ tableExists = FALSE /\ inodeCounter = <<>> /\ issued = <<>>
    /\ pc = [c \in Conns |-> "idle"] /\ local = [c \in Conns |-> NoLocal]
    /\ SortIdle /\ PathIdle /\ PersistIdle

\* generate's lines after the counter: gen_id and urn of the record
FormatId ==
    /\ uPc = "generate"
    /\ LET gen_id == GenIdOf(uIn.namespace, uIn.uuid, uIn.hint)
       IN  uOut' = [gen_id |-> gen_id, urn |-> UrnOf(uIn.namespace, gen_id)]
    /\ uPc' = "minted"
    /\ UNCHANGED uIn

\* resolve_urn on the URN of the record just formed
ResolveMinted ==
    /\ uPc = "minted"
    /\ uOut' = [gen_id |-> uOut.gen_id, urn |-> uOut.urn,
                resolved |-> resolve_urn(uOut.urn)]
    /\ uPc' = "resolved"
    /\ UNCHANGED uIn

\* resolve_urn on an arbitrary string
ResolveText ==
    /\ uPc = "resolve"
    /\ uOut' = [resolved |-> resolve_urn(uIn.urn)]
    /\ uPc' = "parsed"
    /\ UNCHANGED uIn

UrnFrame == UNCHANGED <<mintVars, sortVars, pathVars, persistVars>>

NextUrn ==
    \/ FormatId /\ UrnFrame
    \/ ResolveMinted /\ UrnFrame
    \/ ResolveText /\ UrnFrame

SpecUrn == InitUrn /\ [][NextUrn]_vars

-----------------------------------------------------------------------------
(* Claims about identifiers and URNs *)

\* C8: resolve_urn of a minted record's URN is that record's gen_id, for
\* every namespace and hint.
C8_RoundTrip ==
    uPc = "resolved" => uOut.resolved = Some(uOut.gen_id)

HasColon(s) == \E i \in 1..Len(s) : s[i] = Colon

\* what does hold of the code: the round trip for namespaces free of colons
RoundTripColonFree ==
    (uPc = "resolved" /\ ~HasColon(uIn.namespace)) => uOut.resolved = Some(uOut.gen_id)

\* the prefix "urn:singine:"
UrnPrefix == <<"u", "r", "n", ":", "s", "i", "n", "g", "i", "n", "e", ":">>

\* the positions of the colon that ends the namespace segment of s
NsEnd(s) ==
    {k \in 13..Len(s) : s[k] = Colon /\ \A m \in 13..(k - 1) : s[m] # Colon}

\* C9: resolve_urn answers on every string; on urn:singine:<ns>:<rest>, with
\* <ns> free of colons, it returns <rest> (all that follows the third
\* colon), and on every other string it returns absence.
C9_ResolveTotal ==
    uPc = "parsed" =>
        LET s == uIn.urn
        IN  IF Len(s) >= 13 /\ SubSeq(s, 1, 12) = UrnPrefix /\ NsEnd(s) # {}
            THEN \E k \in NsEnd(s) : uOut.resolved = Some(SubSeq(s, k + 1, Len(s)))
            ELSE uOut.resolved = None

C9_Witness ==
    /\ uPc = "parsed"
    /\ uIn.urn = UrnPrefix \o <<"a", ":", "u", "r", ":", "a">>
    /\ uOut.resolved = Some(<<"u", "r", ":", "a">>)

C9_WitnessAbsent ==
    /\ uPc = "parsed"
    /\ uIn.urn = <<"u", "r", "n", ":", "a", ":", "a", ":", "a">>
    /\ uOut.resolved = None

AsciiClass == {"a", "b", "c", "d", "e", "f", "g", "h", "i", "n", "p", "r", "s", "t",
               "u", "y", "Z", "0", "1", "2", "3", "4", "5", "6", "7", "8", "9", "-"}

MinOf2(a, b) == IF a <= b THEN a ELSE b

\* the record's gen_id and urn as the claim lays them out, with Keep the set
\* of characters the sanitised hint keeps
LaidOut(Keep) ==
    LET ns    == uIn.namespace
        token == [i \in 1..8 |-> uIn.uuid[i]]
        h     == IF uIn.hint.some THEN uIn.hint.val ELSE <<>>
        safe  == [i \in 1..MinOf2(Len(h), 16) |-> IF h[i] \in Keep THEN h[i] ELSE "_"]
        id    == IF h = <<>> THEN ns \o <<"-">> \o token
                 ELSE ns \o <<"-">> \o token \o <<"-">> \o safe
    IN  /\ uOut.gen_id = id
        /\ uOut.urn = UrnPrefix \o ns \o <<":">> \o id

-----------------------------------------------------------------------------
(* quicksort_edges: one action per call of qs_partition; qStack holds the  *)
(* calls still to run, the next one on top.  Indices are the code's usize  *)
(* indices, counted from 0.                                                *)

Edge(id, a, b, w, t) ==
    [gen_id |-> id, src_id |-> a, dst_id |-> b, weight |-> w, edge_type |-> t]

At(es, k) == es[k + 1]

\* edges.swap(a, b)
Swap(es, a, b) ==
    [es EXCEPT ![a + 1] = es[b + 1], ![b + 1] = es[a + 1]]

\* for j in lo..hi { if edges[j].weight <= pivot_w { edges.swap(i, j); i += 1 } }
RECURSIVE PartitionLoop(_, _, _, _, _)
\* touched collects the indices the loop reads (edges[j]) or swaps (i, j)
PartitionLoop(es, i, j, hi, pivot_w) ==
    IF j >= hi THEN [edges |-> es, i |-> i, touched |-> {}]
    ELSE IF At(es, j).weight <= pivot_w
         THEN LET r == PartitionLoop(Swap(es, i, j), i + 1, j + 1, hi, pivot_w)
              IN  [r EXCEPT !.touched = @ \cup {i, j}]
         ELSE LET r == PartitionLoop(es, i, j + 1, hi, pivot_w)
              IN  [r EXCEPT !.touched = @ \cup {j}]

\* mutant: the pivot is not swapped into place after the loop
PartitionPivotLeft(es, lo, hi) ==
    LET r == PartitionLoop(es, lo, lo, hi, At(es, hi).weight)
    IN  [edges |-> r.edges, i |-> r.i, touched |-> r.touched \cup {hi}]

\* the body of qs_partition up to its recursive calls: edges[hi] is read,
\* the loop runs, then edges.swap(i, hi); yields the list, the pivot's final
\* index i and the indices that were read or swapped
Partition(es, lo, hi) ==
    LET r == PartitionLoop(es, lo, lo, hi, At(es, hi).weight)
    IN  [edges |-> Swap(r.edges, r.i, hi), i |-> r.i,
         touched |-> r.touched \cup {hi, r.i}]

\* mutant: the left call is made without the test i > 0
RecursionsUnguarded(lo, hi, i) ==
    <<[lo |-> lo, hi |-> i - 1], [lo |-> i + 1, hi |-> hi]>>

\* the recursive calls of qs_partition, the first to run first
Recursions(lo, hi, i) ==
    (IF i > 0 THEN <<[lo |-> lo, hi |-> i - 1]>> ELSE <<>>)
        \o <<[lo |-> i + 1, hi |-> hi]>>

SortIds == {"e1", "e2"}
SortEdges == {Edge(id, "A", "B", w, "sim") : id \in SortIds, w \in 0..MaxW}

InitSort ==
    /\ qInput \in SeqsUpTo(SortEdges, 0, MaxSortLen)
    /\ qEdges = qInput
    /\ qStack = <<>>
    /\ qPc = "call"
    /\ tableExists = FALSE /\ inodeCounter = <<>> /\ issued = <<>>
    /\ pc = [c \in Conns |-> "idle"] /\ local = [c \in Conns |-> NoLocal]
    /\ UrnIdle /\ PathIdle /\ PersistIdle

\* quicksort_edges: return at once when n < 2, else qs_partition(edges, 0, n - 1)
QuicksortEnter ==
    /\ qPc = "call"
    /\ IF Len(qEdges) < 2
       THEN qPc' = "sorted" /\ qStack' = qStack
       ELSE qPc' = "partition" /\ qStack' = <<[lo |-> 0, hi |-> Len(qEdges) - 1]>>
    /\ UNCHANGED <<qEdges, qInput>>

\* qs_partition(edges, lo, hi) with lo >= hi: return
PartitionReturn ==
    /\ qPc = "partition" /\ qStack # <<>>
    /\ Head(qStack).lo >= Head(qStack).hi
    /\ qStack' = Tail(qStack)
    /\ UNCHANGED <<qPc, qEdges, qInput>>

\* qs_partition(edges, lo, hi) with lo < hi: partition, then recurse
PartitionStep ==
    /\ qPc = "partition" /\ qStack # <<>>
    /\ Head(qStack).lo < Head(qStack).hi
    /\ LET f == Head(qStack)
           r == Partition(qEdges, f.lo, f.hi)
       IN  /\ qEdges' = r.edges
           /\ qStack' = Recursions(f.lo, f.hi, r.i) \o Tail(qStack)
    /\ UNCHANGED <<qPc, qInput>>

\* the outermost qs_partition has returned
QuicksortExit ==
    /\ qPc = "partition" /\ qStack = <<>>
    /\ qPc' = "sorted"
    /\ UNCHANGED <<qEdges, qInput, qStack>>

SortFrame == UNCHANGED <<mintVars, urnVars, pathVars, persistVars>>

NextSort ==
    \/ QuicksortEnter /\ SortFrame
    \/ PartitionReturn /\ SortFrame
    \/ PartitionStep /\ SortFrame
    \/ QuicksortExit /\ SortFrame

SpecSort == InitSort /\ [][NextSort]_vars

-----------------------------------------------------------------------------
(* Claims about quicksort_edges *)

Occurrences(es, e) == Cardinality({k \in 1..Len(es) : es[k] = e})

\* C7: after quicksort_edges the weights are ascending over every adjacent
\* pair and the list is a permutation of the input.
C7_SortedPermutation ==
    qPc = "sorted" =>
        /\ \A k \in 1..(Len(qEdges) - 1) : qEdges[k].weight <= qEdges[k + 1].weight
        /\ Len(qEdges) = Len(qInput)
        /\ \A e \in SortEdges : Occurrences(qEdges, e) = Occurrences(qInput, e)

\* a reverse-sorted input with a repeated weight, sorted
C7_Witness ==
    /\ qPc = "sorted"
    /\ Len(qInput) = 4
    /\ qInput[1].weight = 2 /\ qInput[2].weight = 1
    /\ qInput[3].weight = 1 /\ qInput[4].weight = 0
    /\ qInput[2].gen_id # qInput[3].gen_id
    /\ qEdges # qInput

-----------------------------------------------------------------------------
(* build_adjacency and dijkstra: one action per iteration of the loop      *)

Nodes == {"A", "B", "C"}

\* if cost > best + 1e-9, in units of 1e-9
Eps == 1

\* adj.entry(k).or_default().push(v)
PushEntry(a, k, v) ==
    IF k \in DOMAIN a THEN [a EXCEPT ![k] = Append(@, v)] ELSE (k :> <<v>>) @@ a

\* mutant: the reverse entry is not added (a directed index)
RECURSIVE build_adjacency_Directed(_)
build_adjacency_Directed(es) ==
    IF es = <<>> THEN <<>>
    ELSE LET e    == es[Len(es)]
             rest == build_adjacency_Directed(SubSeq(es, 1, Len(es) - 1))
         IN  PushEntry(rest, e.src_id, <<e.dst_id, e.weight>>)

RECURSIVE build_adjacency(_)
build_adjacency(es) ==
    IF es = <<>> THEN <<>>
    ELSE LET e    == es[Len(es)]
             rest == build_adjacency(SubSeq(es, 1, Len(es) - 1))
             fwd  == PushEntry(rest, e.src_id, <<e.dst_id, e.weight>>)
         IN  PushEntry(fwd, e.dst_id, <<e.src_id, e.weight>>)

State(cost, node, history) == [cost |-> cost, node |-> node, history |-> history]

\* mutant: Ord is not reversed, pop yields an entry of greatest cost
Dearest(h) == {s \in h : \A t \in h : s.cost >= t.cost}

\* BinaryHeap::pop under State's Ord (reversed on cost alone): an entry of
\* least cost, any one of them when several tie
Cheapest(h) == {s \in h : \A t \in h : s.cost <= t.cost}

\* the staleness test: dist.get(&node) is Some(best) and cost > best + 1e-9
Stale(d, s) == s.node \in DOMAIN d /\ s.cost > d[s.node] + Eps

\* mutant: the comparison is <=, a tie with the best known cost is pushed too
ImprovesOrTies(d, next, next_cost) == next \notin DOMAIN d \/ next_cost <= d[next]

\* let entry = dist.entry(next).or_insert(INFINITY); next_cost < *entry
Improves(d, next, next_cost) == next \notin DOMAIN d \/ next_cost < d[next]

SetDist(d, k, v) == IF k \in DOMAIN d THEN [d EXCEPT ![k] = v] ELSE (k :> v) @@ d

\* mutant: next_cost is the edge weight alone, the cost so far is not added
RECURSIVE RelaxEdgeOnly(_, _, _, _, _)
RelaxEdgeOnly(neighbours, k, s, d, h) ==
    IF k > Len(neighbours) THEN [dist |-> d, heap |-> h]
    ELSE LET next      == neighbours[k][1]
             next_cost == neighbours[k][2]
         IN  IF Improves(d, next, next_cost)
             THEN RelaxEdgeOnly(neighbours, k + 1, s, SetDist(d, next, next_cost),
                                h \cup {State(next_cost, next, Append(s.history, next))})
             ELSE RelaxEdgeOnly(neighbours, k + 1, s, d, h)

\* for (next, w) in neighbours { .. }, from the k-th neighbour on
RECURSIVE Relax(_, _, _, _, _)
Relax(neighbours, k, s, d, h) ==
    IF k > Len(neighbours) THEN [dist |-> d, heap |-> h]
    ELSE LET next      == neighbours[k][1]
             next_cost == s.cost + neighbours[k][2]
         IN  IF Improves(d, next, next_cost)
             THEN Relax(neighbours, k + 1, s, SetDist(d, next, next_cost),
                        h \cup {State(next_cost, next, Append(s.history, next))})
             ELSE Relax(neighbours, k + 1, s, d, h)

PathResult(s) ==
    [src_id |-> src, dst_id |-> dst, path |-> s.history,
     total_weight |-> s.cost, algorithm |-> "dijkstra+quicksort"]

\* build_adjacency yields the same index for (a, b, w) and (b, a, w): both
\* push (b, w) onto adj[a] and (a, w) onto adj[b], and for a # b the two
\* pushes go to different keys.  Graphs are therefore drawn with each edge in
\* one orientation, which leaves the set of indices dijkstra sees unchanged.
NodeRank == "A" :> 1 @@ "B" :> 2 @@ "C" :> 3
NodePairs == {p \in Nodes \X Nodes : NodeRank[p[1]] <= NodeRank[p[2]]}
\* weights: none, one unit, and the largest
PathWeights == {0, 1, MaxW}
PathEdges == {Edge("e", p[1], p[2], w, "sim") : p \in NodePairs, w \in PathWeights}

\* dijkstra only compares node identifiers for equality, so up to renaming
\* the nodes the source is "A" and the destination is "A" (src itself) or
\* "B"; "C" is the node a path may pass through or that lies apart.
InitPath ==
    /\ edges \in SeqsUpTo(PathEdges, 0, MaxEdges)
    /\ src = "A" /\ dst \in {"A", "B"}
    /\ dPc = "build"
    /\ adj = <<>> /\ dist = <<>> /\ heap = {} /\ result = None
    /\ tableExists = FALSE /\ inodeCounter = <<>> /\ issued = <<>>
    /\ pc = [c \in Conns |-> "idle"] /\ local = [c \in Conns |-> NoLocal]
    /\ UrnIdle /\ SortIdle /\ PersistIdle

BuildAdjacency ==
    /\ dPc = "build"
    /\ adj' = build_adjacency(edges)
    /\ dPc' = "enter"
    /\ UNCHANGED <<edges, src, dst, dist, heap, result>>

\* dist.insert(src, 0.0); heap.push(State { 0.0, src, vec![src] })
DijkstraEnter ==
    /\ dPc = "enter"
    /\ dist' = (src :> 0)
    /\ heap' = {State(0, src, <<src>>)}
    /\ dPc' = "loop"
    /\ UNCHANGED <<edges, adj, src, dst, result>>

\* the popped entry is at dst: return Some(PathResult)
PopFound ==
    /\ dPc = "loop"
    /\ \E s \in Cheapest(heap) :
        /\ s.node = dst
        /\ heap' = heap \ {s}
        /\ result' = Some(PathResult(s))
    /\ dPc' = "done"
    /\ UNCHANGED <<edges, adj, src, dst, dist>>

\* the popped entry is stale: continue
PopStale ==
    /\ dPc = "loop"
    /\ \E s \in Cheapest(heap) :
        /\ s.node # dst
        /\ Stale(dist, s)
        /\ heap' = heap \ {s}
    /\ UNCHANGED <<dPc, edges, adj, src, dst, dist, result>>

\* the popped entry is expanded over its neighbours
PopExpand ==
    /\ dPc = "loop"
    /\ \E s \in Cheapest(heap) :
        /\ s.node # dst
        /\ ~Stale(dist, s)
        /\ LET neighbours == IF s.node \in DOMAIN adj THEN adj[s.node] ELSE <<>>
               r == Relax(neighbours, 1, s, dist, heap \ {s})
           IN  dist' = r.dist /\ heap' = r.heap
    /\ UNCHANGED <<dPc, edges, adj, src, dst, result>>

\* heap.pop() is None: the loop ends and dijkstra returns None
Exhausted ==
    /\ dPc = "loop"
    /\ heap = {}
    /\ result' = None
    /\ dPc' = "done"
    /\ UNCHANGED <<edges, adj, src, dst, dist, heap>>

PathFrame == UNCHANGED <<mintVars, urnVars, sortVars, persistVars>>

NextPath ==
    \/ BuildAdjacency /\ PathFrame
    \/ DijkstraEnter /\ PathFrame
    \/ PopFound /\ PathFrame
    \/ PopStale /\ PathFrame
    \/ PopExpand /\ PathFrame
    \/ Exhausted /\ PathFrame

SpecPath == InitPath /\ [][NextPath]_vars

-----------------------------------------------------------------------------
(* Claims about dijkstra, stated over the edge list the index was built from *)

EdgeSet == {edges[k] : k \in 1..Len(edges)}

\* the weights of the edges joining a and b, in either direction
WeightsBetween(a, b) ==
    {e.weight : e \in {x \in EdgeSet : \/ x.src_id = a /\ x.dst_id = b
                                       \/ x.src_id = b /\ x.dst_id = a}}

\* more than any path of distinct edges can cost
Unreached == (MaxEdges + 1) * (MaxW + 1) + 1

MinOf(S) == CHOOSE m \in S : \A x \in S : m <= x

\* the paths of the complete graph on Nodes that repeat no node; with
\* non-negative weights a cheapest walk is among them
SimplePaths ==
    {p \in SeqsUpTo(Nodes, 1, Cardinality(Nodes)) :
        \A i, j \in 1..Len(p) : i # j => p[i] # p[j]}

\* the least sum of edge weights along path p (Unreached: an edge is missing)
RECURSIVE PathCost(_, _)
PathCost(p, k) ==
    IF k >= Len(p) THEN 0
    ELSE LET ws == WeightsBetween(p[k], p[k + 1])
         IN  IF ws = {} THEN Unreached
             ELSE LET rest == PathCost(p, k + 1)
                  IN  IF rest >= Unreached THEN Unreached ELSE MinOf(ws) + rest

PathsBetween ==
    [a \in Nodes, b \in Nodes |-> {q \in SimplePaths : q[1] = a /\ q[Len(q)] = b}]

\* the least cost of a path from src to n (Unreached: there is none)
Shortest(n) == MinOf({PathCost(p, 1) : p \in PathsBetween[src, n]})

\* some path from src to n has an edge for every hop
Reachable(n) ==
    \E p \in PathsBetween[src, n] :
        \A k \in 1..(Len(p) - 1) : WeightsBetween(p[k], p[k + 1]) # {}

Returned == dPc = "done"

\* C4: when dst is reachable from src, total_weight is the least sum of edge
\* weights over all paths from src to dst.
C4_Optimal ==
    Returned =>
        \A least \in {Shortest(dst)} :
            least < Unreached => (result.some /\ result.val.total_weight = least)

\* A-C 0, C-B 1 beat the direct edge A-B 2
C4_Witness ==
    /\ Returned /\ dst = "B"
    /\ WeightsBetween("A", "C") = {0}
    /\ WeightsBetween("C", "B") = {1}
    /\ WeightsBetween("A", "B") = {2}
    /\ result.some /\ result.val.path = <<"A", "C", "B">> /\ result.val.total_weight = 1

\* the weights adj records from a to b
AdjWeights(a, b) ==
    IF a \in DOMAIN adj
    THEN {adj[a][k][2] : k \in {j \in 1..Len(adj[a]) : adj[a][j][1] = b}}
    ELSE {}

\* the sums of weights over the ways to walk path p along entries of adj
RECURSIVE WalkSums(_)
WalkSums(p) ==
    IF Len(p) <= 1 THEN {0}
    ELSE {t + w : t \in WalkSums(SubSeq(p, 1, Len(p) - 1)),
                  w \in AdjWeights(p[Len(p) - 1], p[Len(p)])}

\* C5: a returned path runs from src to dst along entries of the adjacency
\* index, total_weight is the sum of the weights of the edges taken, and
\* src_id, dst_id and algorithm are the arguments and "dijkstra+quicksort".
C5_PathValid ==
    (Returned /\ result.some) =>
        LET r == result.val
        IN  /\ Len(r.path) >= 1
            /\ r.path[1] = src /\ r.path[Len(r.path)] = dst
            /\ \A k \in 1..(Len(r.path) - 1) : AdjWeights(r.path[k], r.path[k + 1]) # {}
            /\ r.total_weight \in WalkSums(r.path)
            /\ r.src_id = src /\ r.dst_id = dst
            /\ r.algorithm = "dijkstra+quicksort"

\* a two-hop result over parallel edges A-C of different weights
C5_Witness ==
    /\ Returned /\ result.some
    /\ result.val.path = <<"A", "C", "B">>
    /\ result.val.total_weight = 3
    /\ AdjWeights("A", "C") = {1, 2}

\* C6: dijkstra returns None exactly when dst cannot be reached from src
\* over the undirected edges (src reaches itself), and a result otherwise.
C6_NoneIffUnreachable ==
    Returned => (result = None <=> ~Reachable(dst))

\* dst in a component of its own: A-C joined, B with a self-loop only
C6_Witness ==
    /\ Returned /\ result = None
    /\ dst = "B"
    /\ "C" \in DOMAIN adj /\ "B" \in DOMAIN adj

-----------------------------------------------------------------------------
(* compute_and_persist (shortest_path.rs): load_edges, quicksort_edges,
   build_adjacency, dijkstra, then persist_path = generate("path", None)
   followed by INSERT INTO path_results.  The call runs on connection "c1";
   every SQL statement may fail, and `?` then returns the error at once. *)

\* rows in similarity_edges, and mints that follow the call
MaxRows == 3
MaxLaterMints == 1

\* the stored graph: a dear edge A-C beside the free route A-D-C (C is
\* pushed twice, the dearer entry goes stale), C-B towards the destination,
\* and a direct A-B edge of another edge_type
StoredEdges ==
    {Edge("e", "A", "D", 0, "sim"), Edge("e", "D", "C", 0, "sim"),
     Edge("e", "A", "C", MaxW, "sim"), Edge("e", "C", "B", 1, "sim"),
     Edge("e", "A", "B", 1, "ldap")}
RunIds == {None, Some("r1")}
TypeFilters == {None, Some("sim")}

Pending == [kind |-> "pending"]
Ok(v)   == [kind |-> "ok", val |-> v]
Err(at) == [kind |-> "err", at |-> at]

\* SELECT .. FROM similarity_edges [WHERE edge_type='t'] ORDER BY weight:
\* the rows that pass the filter, in any order that is ascending by weight
load_edges(table, edge_type) ==
    LET keep == {k \in 1..Len(table) :
                    ~edge_type.some \/ table[k].edge_type = edge_type.val}
        n    == Cardinality(keep)
        orders == {f \in [1..n -> keep] :
                     /\ \A i, j \in 1..n : i # j => f[i] # f[j]
                     /\ \A i \in 1..(n - 1) : table[f[i]].weight <= table[f[i + 1]].weight}
    IN  {[k \in 1..n |-> table[f[k]]] : f \in orders}

\* the pending qs_partition calls run to completion, the first first
RECURSIVE qs_partition(_, _)
qs_partition(es, calls) ==
    IF calls = <<>> THEN es
    ELSE LET f == Head(calls)
         IN  IF f.lo >= f.hi
             THEN qs_partition(es, Tail(calls))
             ELSE LET r == Partition(es, f.lo, f.hi)
                  IN  qs_partition(r.edges, Recursions(f.lo, f.hi, r.i) \o Tail(calls))

quicksort_edges(es) ==
    IF Len(es) < 2 THEN es ELSE qs_partition(es, <<[lo |-> 0, hi |-> Len(es) - 1]>>)

Quote == "\""
RECURSIVE JsonItems(_)
JsonItems(path) ==
    IF path = <<>> THEN <<>>
    ELSE <<Quote, Head(path), Quote>>
            \o (IF Len(path) > 1 THEN <<",">> ELSE <<>>) \o JsonItems(Tail(path))

\* serde_json::to_string(&result.path): ["A","C","B"] as characters
ToJson(path) == <<"[">> \o JsonItems(path) \o <<"]">>

\* mutant: ?2 and ?3 are bound the other way round
PathRowSwapped(id_rec, r, run_id) ==
    [gen_id |-> id_rec.gen_id, src_id |-> r.dst_id, dst_id |-> r.src_id,
     path_json |-> ToJson(r.path), total_weight |-> r.total_weight,
     algorithm |-> r.algorithm, run_id |-> run_id]

\* the parameters ?1..?7 of the INSERT
PathRow(id_rec, r, run_id) ==
    [gen_id |-> id_rec.gen_id, src_id |-> r.src_id, dst_id |-> r.dst_id,
     path_json |-> ToJson(r.path), total_weight |-> r.total_weight,
     algorithm |-> r.algorithm, run_id |-> run_id]

\* mutant: a zero-hop result is treated like None
FoundWithHops(r) == r.some /\ Len(r.val.path) > 1

\* mutant: persist_path is called whatever dijkstra returned
FoundAlways(r) == TRUE

\* match dijkstra(..) { Some(result) => .. , None => .. }
Found(r) == r.some

\* mutant: the failed statement leaves its row behind
FailedInsertKeepsRow(rows, row) == Append(rows, row)

\* an INSERT that fails is rolled back by SQLite: the table is as before
FailedInsert(rows, row) == rows

\* the GenId that generate returned to the call on connection c
IdRec(c) ==
    LET ks == {k \in 1..Len(issued) : issued[k].conn = c}
    IN  issued[MaxOf(ks)].rec

InitPersist ==
    /\ edgeTable \in SeqsUpTo(StoredEdges, 0, MaxRows)
    /\ pathResults = <<>>
    /\ cPc = "load"
    /\ cArgs \in [edge_type : TypeFilters, run_id : RunIds]
    /\ cRet = Pending
    /\ src = "A" /\ dst \in {"A", "B"}
    /\ dPc = "off" /\ edges = <<>> /\ adj = <<>>
    /\ dist = <<>> /\ heap = {} /\ result = None
    /\ tableExists = FALSE /\ inodeCounter = <<>> /\ issued = <<>>
    /\ pc = [c \in Conns |-> "idle"] /\ local = [c \in Conns |-> NoLocal]
    /\ UrnIdle /\ SortIdle

\* let mut edges = load_edges(conn, edge_type)?
LoadEdges ==
    /\ cPc = "load"
    /\ edges' \in load_edges(edgeTable, cArgs.edge_type)
    /\ cPc' = "sort"
    /\ UNCHANGED <<dPc, adj, src, dst, dist, heap, result>>
    /\ UNCHANGED <<edgeTable, pathResults, cArgs, cRet>>
    /\ UNCHANGED <<mintVars, urnVars, sortVars>>

\* load_edges fails (prepare, query_map or a row): Err leaves the function
LoadFault ==
    /\ cPc = "load"
    /\ cPc' = "err" /\ cRet' = Err("load")
    /\ UNCHANGED <<edgeTable, pathResults, cArgs>>
    /\ UNCHANGED <<mintVars, urnVars, sortVars, pathVars>>

\* quicksort_edges(&mut edges); the search starts on the sorted list
QuicksortEdges ==
    /\ cPc = "sort"
    /\ edges' = quicksort_edges(edges)
    /\ cPc' = "search" /\ dPc' = "build"
    /\ UNCHANGED <<adj, src, dst, dist, heap, result>>
    /\ UNCHANGED <<edgeTable, pathResults, cArgs, cRet>>
    /\ UNCHANGED <<mintVars, urnVars, sortVars>>

\* None => Ok(None)
NoPath ==
    /\ cPc = "search" /\ dPc = "done"
    /\ ~Found(result)
    /\ cPc' = "ok" /\ cRet' = Ok(None)
    /\ UNCHANGED <<edgeTable, pathResults, cArgs>>
    /\ UNCHANGED <<mintVars, urnVars, sortVars, pathVars>>

\* Some(result) => persist_path(conn, &result, run_id)?, which starts with
\* id_gen::generate(conn, "path", None)?
PersistBegin ==
    /\ cPc = "search" /\ dPc = "done"
    /\ Found(result)
    /\ Begin("c1", StrPath, None)
    /\ cPc' = "mint"
    /\ UNCHANGED <<edgeTable, pathResults, cArgs, cRet>>
    /\ UNCHANGED <<urnVars, sortVars, pathVars>>

\* the statements of a generate call, of this call or of a later one
MintStatement ==
    /\ \E c \in Conns : CreateTable(c) \/ Upsert(c) \/ SelectInode(c)
    /\ UNCHANGED <<persistVars, urnVars, sortVars, pathVars>>

\* a statement of the call's generate fails: `?` returns the error
MintFault ==
    /\ cPc = "mint"
    /\ pc["c1"] \in {"create", "upsert", "select"}
    /\ pc' = [pc EXCEPT !["c1"] = "idle"]
    /\ local' = [local EXCEPT !["c1"] = NoLocal]
    /\ cPc' = "err" /\ cRet' = Err("mint")
    /\ UNCHANGED <<tableExists, inodeCounter, issued>>
    /\ UNCHANGED <<edgeTable, pathResults, cArgs>>
    /\ UNCHANGED <<urnVars, sortVars, pathVars>>

\* generate returns Ok(id_rec) to persist_path
MintReturn ==
    /\ cPc = "mint"
    /\ Return("c1")
    /\ cPc' = "insert"
    /\ UNCHANGED <<edgeTable, pathResults, cArgs, cRet>>
    /\ UNCHANGED <<urnVars, sortVars, pathVars>>

\* INSERT INTO path_results .. succeeds; Ok(Some(result))
InsertRow ==
    /\ cPc = "insert"
    /\ pathResults' = Append(pathResults, PathRow(IdRec("c1"), result.val, cArgs.run_id))
    /\ cPc' = "ok" /\ cRet' = Ok(result)
    /\ UNCHANGED <<edgeTable, cArgs>>
    /\ UNCHANGED <<mintVars, urnVars, sortVars, pathVars>>

\* INSERT INTO path_results .. fails: `?` returns the error
InsertFault ==
    /\ cPc = "insert"
    /\ pathResults' = FailedInsert(pathResults,
                                   PathRow(IdRec("c1"), result.val, cArgs.run_id))
    /\ cPc' = "err" /\ cRet' = Err("insert")
    /\ UNCHANGED <<edgeTable, cArgs>>
    /\ UNCHANGED <<mintVars, urnVars, sortVars, pathVars>>

\* after the call has returned, another caller mints in the same namespace
LaterBegin ==
    /\ cPc \in {"ok", "err"}
    /\ Cardinality({k \in 1..Len(issued) : issued[k].conn = "c2"}) < MaxLaterMints
    /\ Begin("c2", StrPath, None)
    /\ UNCHANGED <<persistVars, urnVars, sortVars, pathVars>>

LaterReturn ==
    /\ Return("c2")
    /\ UNCHANGED <<persistVars, urnVars, sortVars, pathVars>>

NextPersist ==
    \/ LoadEdges
    \/ LoadFault
    \/ QuicksortEdges
    \/ BuildAdjacency /\ PathFrame
    \/ DijkstraEnter /\ PathFrame
    \/ PopFound /\ PathFrame
    \/ PopStale /\ PathFrame
    \/ PopExpand /\ PathFrame
    \/ Exhausted /\ PathFrame
    \/ NoPath
    \/ PersistBegin
    \/ MintStatement
    \/ MintFault
    \/ MintReturn
    \/ InsertRow
    \/ InsertFault
    \/ LaterBegin
    \/ LaterReturn

SpecPersist == InitPersist /\ [][NextPersist]_vars

-----------------------------------------------------------------------------
(* Claims about compute_and_persist *)

\* the records generate returned on connection c
MintedBy(c) == {k \in 1..Len(issued) : issued[k].conn = c}

\* chars is the JSON array of the one-character strings of path
IsJsonArrayOf(chars, path) ==
    LET n == Len(path)
    IN  /\ Len(chars) = IF n = 0 THEN 2 ELSE 4 * n + 1
        /\ chars[1] = "[" /\ chars[Len(chars)] = "]"
        /\ \A k \in 1..n :
             /\ chars[4 * k - 2] = Quote
             /\ chars[4 * k - 1] = path[k]
             /\ chars[4 * k] = Quote
             /\ k < n => chars[4 * k + 1] = ","

\* C11: a compute_and_persist call that returns a path result has minted
\* exactly one identifier, in the "path" namespace, and has appended exactly
\* one path_results row; the row carries that identifier and the src, dst,
\* serialized path, total weight, algorithm tag of the returned result and
\* the run id that was supplied.
C11_PersistedOnce ==
    (cPc = "ok" /\ cRet.val.some) =>
        LET r == cRet.val.val
        IN  /\ Cardinality(MintedBy("c1")) = 1
            /\ Len(pathResults) = 1
            /\ \A k \in MintedBy("c1") :
                 /\ issued[k].namespace = StrPath
                 /\ pathResults[1].gen_id = issued[k].rec.gen_id
            /\ pathResults[1].src_id = r.src_id /\ r.src_id = src
            /\ pathResults[1].dst_id = r.dst_id /\ r.dst_id = dst
            /\ IsJsonArrayOf(pathResults[1].path_json, r.path)
            /\ pathResults[1].total_weight = r.total_weight
            /\ pathResults[1].algorithm = r.algorithm
            /\ pathResults[1].run_id = cArgs.run_id

\* a three-hop result under an edge_type filter, persisted with its run id
C11_Witness ==
    /\ cPc = "ok" /\ cRet.val.some
    /\ cRet.val.val.path = <<"A", "D", "C", "B">>
    /\ cArgs.edge_type = Some("sim") /\ cArgs.run_id = Some("r1")
    /\ Len(pathResults) = 1

\* C12: a storage fault during compute_and_persist (loading the edges,
\* minting the identifier, inserting the row) returns the error to the
\* caller at once: no later step has run, and no path_results row exists
\* for the call.
C12_FaultAborts ==
    cPc = "err" =>
        /\ cRet.kind = "err"
        /\ pathResults = <<>>
        /\ pc["c1"] = "idle"
        /\ cRet.at = "load" =>
             /\ dPc = "off" /\ edges = <<>> /\ adj = <<>>
             /\ MintedBy("c1") = {}
        /\ cRet.at = "mint" => dPc = "done" /\ MintedBy("c1") = {}
        /\ cRet.at = "insert" => dPc = "done" /\ Cardinality(MintedBy("c1")) = 1

\* the INSERT failed after the mint: the counter row is there, no row is
C12_Witness ==
    /\ cPc = "err" /\ cRet = Err("insert")
    /\ StrPath \in DOMAIN inodeCounter
    /\ pathResults = <<>>

\* each of the three places a fault can occur
C12_WitnessLoad == cPc = "err" /\ cRet = Err("load") /\ Len(edgeTable) = MaxRows
C12_WitnessMint == cPc = "err" /\ cRet = Err("mint") /\ StrPath \in DOMAIN inodeCounter

-----------------------------------------------------------------------------
(* Claims about the rows generate writes *)

\* next_inode of a namespace's counter row, 0 when the row does not exist
RowOf(rows, ns) == IF ns \in DOMAIN rows THEN rows[ns] ELSE 0

\* the generate calls on ns that have run their upsert statement
PastUpsert(ns) ==
    Cardinality({k \in 1..Len(issued) : issued[k].namespace = ns})
        + Cardinality({c \in Conns : pc[c] \in {"select", "format"}
                                        /\ local[c].namespace = ns})

\* every counter row is 1 plus the number of upserts on its namespace, and a
\* namespace nobody has upserted has no row
OneMutationPerCall ==
    /\ DOMAIN inodeCounter \subseteq Namespaces
    /\ \A ns \in Namespaces : RowOf(inodeCounter, ns) =
            IF PastUpsert(ns) = 0 THEN 0 ELSE 1 + PastUpsert(ns)

\* a statement of a generate call leaves everything alone, except the upsert,
\* which creates (at 2) or increments by one the row of the call's namespace
GenerateFrame ==
    \A c \in Conns : pc'[c] # pc[c] =>
        /\ edgeTable' = edgeTable /\ pathResults' = pathResults
        /\ \A ns \in Namespaces :
             RowOf(inodeCounter', ns) =
                IF pc[c] = "upsert" /\ ns = local[c].namespace
                THEN (IF RowOf(inodeCounter, ns) = 0 THEN 2
                      ELSE RowOf(inodeCounter, ns) + 1)
                ELSE RowOf(inodeCounter, ns)

\* C13: each generate call performs exactly one durable row mutation: its
\* upsert creates or increments by one the counter row of its own namespace;
\* the counter rows of the other namespaces, the edge table and path_results
\* are unchanged by the call.
C13_OneRowMutation == []OneMutationPerCall /\ [][GenerateFrame]_vars

\* calls in both namespaces have returned, one namespace twice
C13_Witness ==
    /\ Len(issued) = 3
    /\ RowOf(inodeCounter, StrPath) = 3 /\ RowOf(inodeCounter, StrEntity) = 2
    /\ edgeTable = <<>> /\ pathResults = <<>>

-----------------------------------------------------------------------------
(* Claims about persist_path when the INSERT fails *)

\* later generate calls that have run their upsert statement
LaterPastUpsert ==
    Cardinality(MintedBy("c2"))
        + (IF pc["c2"] \in {"select", "format"} THEN 1 ELSE 0)

\* C14: when the path_results write fails after a successful mint, the
\* "path" counter has still advanced by one, and every later mint in the
\* "path" namespace returns a strictly greater inode: the inode of the
\* failed persist is a gap, it is not issued again.
C14_GapNotReuse ==
    (cPc = "err" /\ cRet.at = "insert") =>
        /\ RowOf(inodeCounter, StrPath) = IdRec("c1").inode + 1 + LaterPastUpsert
        /\ \A k \in MintedBy("c2") :
             /\ issued[k].namespace = StrPath
             /\ issued[k].rec.inode > IdRec("c1").inode
        /\ \A k \in 1..Len(pathResults) : pathResults[k].gen_id # IdRec("c1").gen_id

\* the persist failed holding inode 1, the next mint returned inode 2
C14_Witness ==
    /\ cPc = "err" /\ cRet.at = "insert"
    /\ IdRec("c1").inode = 1
    /\ \E k \in MintedBy("c2") : issued[k].rec.inode = 2

-----------------------------------------------------------------------------
(* Claims about the two outcomes of the search *)

\* C15: when the search finds no path, compute_and_persist returns Ok(None),
\* which is not an error value, and leaves durable state as it was: the call
\* mints no identifier (the "path" counter is not advanced by it) and writes
\* no path_results row.
C15_NoPathNoWrite ==
    (dPc = "done" /\ ~result.some) =>
        /\ cPc \in {"search", "ok"}
        /\ cPc = "ok" => cRet = Ok(None) /\ cRet.kind # "err"
        /\ pc["c1"] = "idle" /\ MintedBy("c1") = {}
        /\ pathResults = <<>>
        /\ RowOf(inodeCounter, StrPath) =
              IF LaterPastUpsert = 0 THEN 0 ELSE 1 + LaterPastUpsert
        /\ (MintedBy("c2") = {} /\ pc["c2"] \in {"idle", "create"}) => ~tableExists

\* a full edge table without a route to B: Ok(None), nothing written
C15_Witness ==
    /\ cPc = "ok" /\ cRet = Ok(None)
    /\ Len(edgeTable) = MaxRows /\ dst = "B"
    /\ inodeCounter = <<>> /\ pathResults = <<>> /\ ~tableExists

-----------------------------------------------------------------------------
(* build_adjacency on its own: edge lists in both orientations and of two
   edge types *)

MaxAdjEdges == 2

EdgeTypes == {"sim", "ldap"}
AdjEdges ==
    {Edge("e", a, b, w, t) : a \in Nodes, b \in Nodes, w \in {1, MaxW}, t \in EdgeTypes}

InitAdj ==
    /\ edges \in SeqsUpTo(AdjEdges, 0, MaxAdjEdges)
    /\ src = "A" /\ dst = "A"
    /\ dPc = "build"
    /\ adj = <<>> /\ dist = <<>> /\ heap = {} /\ result = None
    /\ tableExists = FALSE /\ inodeCounter = <<>> /\ issued = <<>>
    /\ pc = [c \in Conns |-> "idle"] /\ local = [c \in Conns |-> NoLocal]
    /\ UrnIdle /\ SortIdle /\ PersistIdle

NextAdj == BuildAdjacency /\ PathFrame

SpecAdj == InitAdj /\ [][NextAdj]_vars

\* what the edges of es, first to last, contribute to the list of node n
RECURSIVE Incident(_, _)
Incident(es, n) ==
    IF es = <<>> THEN <<>>
    ELSE LET e == Head(es)
         IN  (IF e.src_id = n THEN <<<<e.dst_id, e.weight>>>> ELSE <<>>)
                \o (IF e.dst_id = n THEN <<<<e.src_id, e.weight>>>> ELSE <<>>)
                \o Incident(Tail(es), n)

\* C16: build_adjacency returns an index whose keys are the nodes that occur
\* in some edge and in which adj[n] is the sequence of (other endpoint,
\* weight) entries of the edges incident to n, in the order supplied: an edge
\* (a, b, w) of any edge_type gives (b, w) to adj[a] and (a, w) to adj[b],
\* parallel edges are kept, a self-loop gives two entries.
C16_AdjacencyExact ==
    dPc = "enter" =>
        /\ DOMAIN adj = {n \in Nodes : \E k \in 1..Len(edges) :
                            edges[k].src_id = n \/ edges[k].dst_id = n}
        /\ \A n \in DOMAIN adj : adj[n] = Incident(edges, n)

\* a self-loop on A, then an edge B-A of another type: two entries for the
\* loop, the later edge behind them, no key for C
C16_Witness ==
    /\ dPc = "enter"
    /\ edges = <<Edge("e", "A", "A", 1, "sim"), Edge("e", "B", "A", MaxW, "ldap")>>
    /\ DOMAIN adj = {"A", "B"}
    /\ adj["A"] = <<<<"A", 1>>, <<"A", 1>>, <<"B", MaxW>>>>
    /\ adj["B"] = <<<<"A", MaxW>>>>

\* two parallel edges: both are kept, on both sides
C16_WitnessParallel ==
    /\ dPc = "enter"
    /\ edges = <<Edge("e", "A", "C", 1, "sim"), Edge("e", "A", "C", 1, "sim")>>
    /\ adj["A"] = <<<<"C", 1>>, <<"C", 1>>>>
    /\ adj["C"] = <<<<"A", 1>>, <<"A", 1>>>>

-----------------------------------------------------------------------------
(* Claims about the dijkstra loop *)

\* every entry a step adds to the frontier beats the best known cost of its
\* node (or the node had none), and becomes that best known cost
PushImproves ==
    \A s \in heap' \ heap :
        /\ s.node \notin DOMAIN dist \/ s.cost < dist[s.node]
        /\ dist'[s.node] <= s.cost

\* the best known cost of n, and a value above every cost when it has none
Infinity == MaxW * (MaxEdges + 1) + 1
BestKnown(n) == IF n \in DOMAIN dist THEN dist[n] ELSE Infinity

RECURSIVE SumOver(_, _)
SumOver(S, f) ==
    IF S = {} THEN 0
    ELSE LET n == CHOOSE x \in S : TRUE
         IN  f[n] + SumOver(S \ {n}, f)

\* what is left to do: the best known costs can only fall, and between two
\* falls the frontier can only shrink
CostLeft == SumOver(Nodes, [n \in Nodes |-> BestKnown(n)])

\* a pass of the loop returns, or lowers a best known cost, or leaves the
\* costs alone and shrinks the frontier
LoopProgress ==
    dPc = "loop" =>
        \/ dPc' = "done"
        \/ CostLeft' < CostLeft
        \/ CostLeft' = CostLeft /\ Cardinality(heap') < Cardinality(heap)

\* before the return there is always a step to take, and what is left to do
\* never falls below nothing
LoopNotStuck ==
    /\ \/ dPc \in {"build", "enter", "done"}
       \/ dPc = "loop" /\ heap = {}
       \/ dPc = "loop" /\ Cheapest(heap) # {}
    /\ CostLeft >= 0 /\ \A s \in heap : s.cost < Infinity

\* C17: for every adjacency index with non-negative weights (zero weights,
\* cycles, self-loops and parallel edges included) and every src and dst the
\* dijkstra loop terminates: an entry is pushed only when it strictly
\* improves the best known cost of its node, so every pass of the loop uses
\* up a bounded quantity and the loop ends with the frontier exhausted or
\* dst popped.
C17_Terminates == []LoopNotStuck /\ [][PushImproves /\ LoopProgress]_vars

\* the loop has ended on a graph with a zero-weight self-loop and two
\* zero-weight parallel edges, which form cycles of cost 0
C17_Witness ==
    /\ dPc = "done"
    /\ edges = <<Edge("e", "A", "A", 0, "sim"), Edge("e", "A", "C", 0, "sim"),
                 Edge("e", "A", "C", 0, "sim")>>
    /\ dst = "B" /\ result = None

\* C18: for non-negative edge weights, zero included, every path dijkstra
\* returns is simple: no node occurs twice in it, whatever cycles, self-loops
\* or zero-weight edges the graph has.
C18_SimplePath ==
    (dPc = "done" /\ result.some) =>
        LET p == result.val.path
        IN  \A i, j \in 1..Len(p) : i # j => p[i] # p[j]

\* a two-hop path returned from a graph whose edges all weigh 0 and which has
\* a self-loop on the source
C18_Witness ==
    /\ dPc = "done" /\ result.some
    /\ result.val.path = <<"A", "C", "B">>
    /\ edges = <<Edge("e", "A", "A", 0, "sim"), Edge("e", "A", "C", 0, "sim"),
                 Edge("e", "B", "C", 0, "sim")>>

\* C19: when src equals dst, dijkstra returns the path [src] with
\* total_weight 0 on the first pop, whether or not src occurs in the graph
\* (even for an empty edge set), and a compute_and_persist call that then
\* succeeds has minted a "path" identifier and persisted a row for that
\* result: the query is reported as found, never as no path.
C19_SelfPathFound ==
    (src = dst /\ dPc = "done") =>
        /\ result.some
        /\ result.val.path = <<src>> /\ result.val.total_weight = 0
        /\ dist = (src :> 0) /\ heap = {}
        /\ cPc # "search" => cRet # Ok(None)
        /\ cPc = "ok" =>
             /\ cRet = Ok(result)
             /\ Cardinality(MintedBy("c1")) = 1
             /\ Len(pathResults) = 1
             /\ pathResults[1].gen_id = IdRec("c1").gen_id
             /\ pathResults[1].src_id = src /\ pathResults[1].dst_id = src
             /\ pathResults[1].path_json = <<"[", Quote, src, Quote, "]">>
             /\ pathResults[1].total_weight = 0

\* src = dst = "A" over an empty similarity_edges table: found and persisted
C19_Witness ==
    /\ src = dst /\ edgeTable = <<>>
    /\ cPc = "ok" /\ cRet.val.some
    /\ Len(pathResults) = 1 /\ pathResults[1].total_weight = 0
    /\ RowOf(inodeCounter, StrPath) >= 2

\* the same with rows in the table, none of which mentions "A" once the
\* edge_type filter is applied
C19_WitnessAbsentNode ==
    /\ src = dst /\ Len(edgeTable) = 1 /\ edges = <<>>
    /\ cPc = "ok" /\ Len(pathResults) = 1

-----------------------------------------------------------------------------
(* Claims about the indices of qs_partition *)

\* every pending call has usize arguments, hi inside the list, and a range
\* that is at worst empty by one (lo = hi + 1)
FramesInRange ==
    \A k \in 1..Len(qStack) :
        /\ qStack[k].lo >= 0 /\ qStack[k].hi >= 0
        /\ qStack[k].hi <= Len(qEdges) - 1
        /\ qStack[k].lo <= qStack[k].hi + 1

\* the call about to partition reads and swaps inside [lo, hi] only, and
\* its pivot lands inside [lo, hi]
PartitionInRange ==
    (qPc = "partition" /\ qStack # <<>> /\ Head(qStack).lo < Head(qStack).hi) =>
        LET f == Head(qStack)
            r == Partition(qEdges, f.lo, f.hi)
        IN  /\ r.touched \subseteq f.lo..f.hi
            /\ f.lo <= r.i /\ r.i <= f.hi

\* a partitioning step replaces its call by one or two calls on strictly
\* shorter ranges: no left call when the pivot is at 0, a right call that
\* is empty when the pivot is at hi
ChildrenShorter ==
    (qPc = "partition" /\ qStack # <<>> /\ Head(qStack).lo < Head(qStack).hi) =>
        LET f == Head(qStack)
            n == Len(qStack') - Len(Tail(qStack))
            right == qStack'[n]
        IN  /\ n \in {1, 2}
            /\ SubSeq(qStack', n + 1, Len(qStack')) = Tail(qStack)
            /\ \A k \in 1..n :
                 /\ qStack'[k].lo >= f.lo /\ qStack'[k].hi <= f.hi
                 /\ qStack'[k].hi - qStack'[k].lo < f.hi - f.lo
            /\ right.hi = f.hi
            /\ n = 1 <=> right.lo = 1
            /\ n = 2 => qStack'[1].lo = f.lo /\ qStack'[1].hi = right.lo - 2

\* what is left to do: each pending call counts for itself and twice for
\* every index of its range
RECURSIVE WorkLeft(_)
WorkLeft(calls) ==
    IF calls = <<>> THEN 0
    ELSE LET f == Head(calls)
             n == IF f.hi >= f.lo THEN f.hi - f.lo + 1 ELSE 0
         IN  2 * n + 1 + WorkLeft(Tail(calls))

\* every step inside the outermost call uses up work, or is the return
SortProgress ==
    qPc = "partition" => qPc' = "sorted" \/ WorkLeft(qStack') < WorkLeft(qStack)

\* before the return there is always a step to take: the entry, the return
\* of the outermost call, the return of an empty or one-element call, or a
\* partitioning whose range lies in the list
SortNotStuck ==
    \/ qPc \in {"call", "sorted"}
    \/ qPc = "partition" /\ qStack = <<>>
    \/ qPc = "partition" /\ qStack # <<>> /\ Head(qStack).lo >= Head(qStack).hi
    \/ /\ qPc = "partition" /\ qStack # <<>>
       /\ 0 <= Head(qStack).lo /\ Head(qStack).lo < Head(qStack).hi
       /\ Head(qStack).hi < Len(qEdges)

\* C20: quicksort_edges terminates, and every index it reads or swaps stays
\* inside the current range [lo, hi]: the pivot position i satisfies
\* lo <= i <= hi, the left recursion is not made when i is 0 (i - 1 is never
\* computed below 0), the right recursion with i + 1 > hi returns at once,
\* and each recursive range is strictly shorter than its parent.
C20_IndicesInRange ==
    /\ []SortNotStuck
    /\ [][SortProgress]_vars
    /\ []FramesInRange
    /\ []PartitionInRange
    /\ [][ChildrenShorter]_vars

\* a full-length list that was not sorted has been sorted
C20_Witness ==
    /\ qPc = "sorted"
    /\ Len(qInput) = MaxSortLen
    /\ qEdges # qInput

\* the pivot of the outermost call landed at 0: only the right call is pending
C20_WitnessPivotAtZero ==
    /\ qPc = "partition" /\ Len(qEdges) = MaxSortLen
    /\ qStack = <<[lo |-> 1, hi |-> MaxSortLen - 1]>>

\* the pivot landed at hi: the right call has i + 1 > hi
C20_WitnessPivotAtHi ==
    /\ qPc = "partition" /\ Len(qEdges) = MaxSortLen
    /\ qStack = <<[lo |-> MaxSortLen, hi |-> MaxSortLen - 1]>>
=============================================================================
